---- MODULE Spec2Model ----
(***************************************************************************)
(* A model of SystemFactory::CreateFromFile and its two sub-constructors   *)
(* (src/src/readybase/SystemFactory.cpp).                                  *)
(*                                                                         *)
(* One call is modelled statement by statement: the process numeric locale *)
(* is forced to "C", the container type is sniffed, the image or the mesh  *)
(* sub-constructor reads the file, checks its data section, selects the    *)
(* model variant, hydrates it, overlays the render settings, sizes and     *)
(* fills the model and optionally generates the initial pattern; the       *)
(* locale is then set again and the model is returned.  A C++ exception    *)
(* leaves the call at the throwing statement: nothing in CreateFromFile    *)
(* catches it, so no later statement of the call runs.                     *)
(*                                                                         *)
(* Spec runs calls one after the other (the GUI event loop).  SpecThreads  *)
(* runs CreateFromFile on two threads that share the process locale.       *)
(***************************************************************************)
EXTENDS Integers, Sequences, FiniteSets

\* ------------------------------------------------------------------ bounds

\* Number of sequential calls of CreateFromFile in one run.
MaxCalls == 2
\* Largest number of arrays in a container's point data / cell data.
MaxArrays == 2
\* Largest number of scalar components of an image element.
MaxComponents == 3
\* Number of calls each thread makes in SpecThreads.
MaxThreadCalls == 2

\* ------------------------------------------------------------------ values

Locales == {"C", "de_DE"}
Threads == {1, 2}

\* What vtkXMLGenericDataObjectReader::ReadOutputType can answer: the two
\* types the switch knows, another VTK type, and its read-error value.
DataStructureTypes ==
    {"VTK_IMAGE_DATA", "VTK_UNSTRUCTURED_GRID", "VTK_POLY_DATA", "READ_ERROR"}

\* The scalar type of a data array (GetDataType()).
DataTypes == {"VTK_FLOAT", "VTK_DOUBLE"}

\* reader->GetOutput(): no object, an object without point/cell data, or an
\* object whose data section holds narrays arrays, the first of type
\* data_type.
NoOutput == [obj |-> FALSE, data |-> FALSE, narrays |-> 0, data_type |-> "none"]
NoDataSection == [obj |-> TRUE, data |-> FALSE, narrays |-> 0, data_type |-> "none"]
EmptyDataSection == [obj |-> TRUE, data |-> TRUE, narrays |-> 0, data_type |-> "none"]
Outputs ==
    {NoOutput, NoDataSection, EmptyDataSection}
    \cup {[obj |-> TRUE, data |-> TRUE, narrays |-> n, data_type |-> t] :
            n \in 1..MaxArrays, t \in DataTypes}

RuleTypes == {"inbuilt", "formula", "kernel", "bogus"}
RuleNames == {"Gray-Scott", "Bogus"}

\* What is known of a file once the readers have run: the sniffed container
\* type, the reader's output, and the type and name attributes of the RD
\* element.
Files ==
    [dst : DataStructureTypes, output : Outputs, type : RuleTypes, name : RuleNames]

Filenames == {"a.vti", "b.vtu"}
\* (platform, device) pairs the caller may select.
Devices == {<<0, 0>>, <<1, 2>>}

Args ==
    {[filename |-> f, is_opencl_available |-> g,
      opencl_platform |-> d[1], opencl_device |-> d[2]] :
        f \in Filenames, g \in BOOLEAN, d \in Devices}

\* Image dimensions (GetDimensions).
Dimensions == {<<32, 32, 1>>, <<4, 2, 3>>}

\* Render settings: a store of named values; an XML render_settings element
\* is a set of <<name, value>> pairs, at most one per name.
SettingNames == {"a", "b"}
SettingValues == {1}
DefaultSettings == [n \in SettingNames |-> 0]
NoElement == [present |-> FALSE, settings |-> {}]
RenderSettingsElements ==
    {[present |-> TRUE, settings |-> s] :
        s \in {t \in SUBSET (SettingNames \X SettingValues) :
                 \A p, q \in t : p[1] = q[1] => p = q}}

\* ------------------------------------------------------------------ errors

Error(msg, arg) == [msg |-> msg, arg |-> arg]
NoError == Error("", "")
ErrUnsupportedData == Error("Unsupported data type or file read error", "")
ErrImageRead == Error("Failed to read image.", "")
ErrImageNoPointData == Error("Image has no point data.", "")
ErrImageNoArrays == Error("No arrays in image point data.", "")
ErrGridRead == Error("Failed to read unstructured grid.", "")
ErrGridNoCellData == Error("Unstructured grid has no cell data.", "")
ErrGridNoArrays == Error("No arrays in unstructured grid cell data.", "")
ErrUnsupportedInbuilt(name) == Error("Unsupported inbuilt implementation: ", name)
ErrOpenCLHints == Error("OpenCL_utils::GetOpenCLInstallationHints()", "")
ErrUnsupportedRuleType(type) == Error("Unsupported rule type: ", type)
\* Exceptions of the model's own methods.
ErrInitializeFromXML == Error("InitializeFromXML", "")
ErrCopyFromImage == Error("CopyFromImage", "")
ErrCopyFromMesh == Error("CopyFromMesh", "")
ErrGenerateInitialPattern == Error("GenerateInitialPattern", "")

\* ------------------------------------------------------------------ the model object

NoBackend == [bound |-> FALSE, platform |-> -1, device |-> -1, data_type |-> "none"]
OpenCLBackend(platform, device, data_type) ==
    [bound |-> TRUE, platform |-> platform, device |-> device, data_type |-> data_type]

\* An AbstractRD: its topology and rule variant, the compute backend it was
\* constructed with, its size, its filename and modified flag, and the
\* methods the factory has invoked on it, in order.
NewSystem(topology, rule, backend) ==
    [topology |-> topology, rule |-> rule, backend |-> backend,
     dims |-> <<0, 0, 0>>, nc |-> 0, filename |-> "", modified |-> FALSE,
     log |-> <<>>]
NoSystem == NewSystem("none", "none", NoBackend)


\* ------------------------------------------------------------------ library and collaborators

\* setlocale(LC_NUMERIC, requested): the process locale becomes `requested`
\* and the call returns the string associated with the locale now in effect
\* (ISO C 7.11.1.1: "the string associated with the specified category for
\* the new locale"), not the one it replaced.
Setlocale(current, requested) == [locale |-> requested, result |-> requested]

\* Properties::OverwriteFromXML: every setting the element names takes the
\* element's value; the others keep theirs.
OverwriteFromXML(store, xml) ==
    [n \in SettingNames |->
        IF \E p \in xml.settings : p[1] = n
        THEN (CHOOSE p \in xml.settings : p[1] = n)[2]
        ELSE store[n]]

\* AbstractRD::InitializeFromXML sets warn_to_update when the descriptor's
\* format version is one the loader warns about.
InitializeFromXMLWarn(warn, outdated) == IF outdated THEN TRUE ELSE warn

\* MeshRD::CopyFromMesh takes the number of chemicals from the grid's cell
\* arrays.
MeshNumberOfChemicals(ugrid) == ugrid.narrays

\* A method of the model that changes it: recorded in the log, and the model
\* is dirty afterwards.
Invoke(sys, method) == [sys EXCEPT !.log = Append(@, method), !.modified = TRUE]

\* ------------------------------------------------------------------ CreateFromFile

\* Dispatch with the default case falling into the image case.
DispatchDefaultImage(data_structure_type) ==
    CASE data_structure_type = "VTK_UNSTRUCTURED_GRID" -> "mesh"
      [] OTHER -> "image"

\* The switch on data_structure_type.
Dispatch(data_structure_type) ==
    CASE data_structure_type = "VTK_IMAGE_DATA" -> "image"
      [] data_structure_type = "VTK_UNSTRUCTURED_GRID" -> "mesh"
      [] OTHER -> "throw"

\* ------------------------------------------------------------------ CreateFromImageDataFile

\* ImageChecks without the check of GetArray(0).
ImageChecksNoArrayCheck(image) ==
    IF ~image.obj THEN ErrImageRead
    ELSE IF ~image.data THEN ErrImageNoPointData
    ELSE NoError

\* The three checks on the reader's output, in order.
ImageChecks(image) ==
    IF ~image.obj THEN ErrImageRead
    ELSE IF ~image.data THEN ErrImageNoPointData
    ELSE IF image.narrays = 0 THEN ErrImageNoArrays
    ELSE NoError

\* ImageVariant with the kernel branch not asking is_opencl_available.
ImageVariantKernelUnchecked(type, name, is_opencl_available, opencl_platform, opencl_device, data_type) ==
    IF type = "inbuilt" THEN
        IF name = "Gray-Scott"
        THEN [error |-> NoError, system |-> NewSystem("image", "GrayScott", NoBackend)]
        ELSE [error |-> ErrUnsupportedInbuilt(name), system |-> NoSystem]
    ELSE IF type = "formula" THEN
        IF ~is_opencl_available
        THEN [error |-> ErrOpenCLHints, system |-> NoSystem]
        ELSE [error |-> NoError,
              system |-> NewSystem("image", "FormulaOpenCL",
                            OpenCLBackend(opencl_platform, opencl_device, data_type))]
    ELSE IF type = "kernel" THEN
        [error |-> NoError,
         system |-> NewSystem("image", "FullKernelOpenCL",
                       OpenCLBackend(opencl_platform, opencl_device, data_type))]
    ELSE [error |-> ErrUnsupportedRuleType(type), system |-> NoSystem]

\* The choice of the variant: the error thrown, or the model constructed.
ImageVariant(type, name, is_opencl_available, opencl_platform, opencl_device, data_type) ==
    IF type = "inbuilt" THEN
        IF name = "Gray-Scott"
        THEN [error |-> NoError, system |-> NewSystem("image", "GrayScott", NoBackend)]
        ELSE [error |-> ErrUnsupportedInbuilt(name), system |-> NoSystem]
    ELSE IF type = "formula" THEN
        IF ~is_opencl_available
        THEN [error |-> ErrOpenCLHints, system |-> NoSystem]
        ELSE [error |-> NoError,
              system |-> NewSystem("image", "FormulaOpenCL",
                            OpenCLBackend(opencl_platform, opencl_device, data_type))]
    ELSE IF type = "kernel" THEN
        IF ~is_opencl_available
        THEN [error |-> ErrOpenCLHints, system |-> NoSystem]
        ELSE [error |-> NoError,
              system |-> NewSystem("image", "FullKernelOpenCL",
                            OpenCLBackend(opencl_platform, opencl_device, data_type))]
    ELSE [error |-> ErrUnsupportedRuleType(type), system |-> NoSystem]

\* if(xml_render_settings) render_settings.OverwriteFromXML(xml_render_settings);
ImageOverlay(store, xml) == IF xml.present THEN OverwriteFromXML(store, xml) ELSE store

\* ImageNumberOfChemicals adding where it should multiply.
ImageNumberOfChemicalsSum(components, narrays) == components + narrays

\* int nc = GetNumberOfScalarComponents() * GetNumberOfArrays();
ImageNumberOfChemicals(components, narrays) == components * narrays

\* ------------------------------------------------------------------ CreateFromUnstructuredGridFile

GridChecks(ugrid) ==
    IF ~ugrid.obj THEN ErrGridRead
    ELSE IF ~ugrid.data THEN ErrGridNoCellData
    ELSE IF ugrid.narrays = 0 THEN ErrGridNoArrays
    ELSE NoError

\* GridVariant passing device and platform in the wrong order.
GridVariantSwappedIds(type, name, is_opencl_available, opencl_platform, opencl_device, data_type) ==
    IF type = "inbuilt" THEN
        IF name = "Gray-Scott"
        THEN [error |-> NoError, system |-> NewSystem("mesh", "GrayScott", NoBackend)]
        ELSE [error |-> ErrUnsupportedInbuilt(name), system |-> NoSystem]
    ELSE IF type = "formula" THEN
        IF ~is_opencl_available
        THEN [error |-> ErrOpenCLHints, system |-> NoSystem]
        ELSE [error |-> NoError,
              system |-> NewSystem("mesh", "FormulaOpenCL",
                            OpenCLBackend(opencl_device, opencl_platform, data_type))]
    ELSE IF type = "kernel" THEN
        IF ~is_opencl_available
        THEN [error |-> ErrOpenCLHints, system |-> NoSystem]
        ELSE [error |-> NoError,
              system |-> NewSystem("mesh", "FullKernelOpenCL",
                            OpenCLBackend(opencl_device, opencl_platform, data_type))]
    ELSE [error |-> ErrUnsupportedRuleType(type), system |-> NoSystem]

\* The choice of the variant: the error thrown, or the model constructed.
GridVariant(type, name, is_opencl_available, opencl_platform, opencl_device, data_type) ==
    IF type = "inbuilt" THEN
        IF name = "Gray-Scott"
        THEN [error |-> NoError, system |-> NewSystem("mesh", "GrayScott", NoBackend)]
        ELSE [error |-> ErrUnsupportedInbuilt(name), system |-> NoSystem]
    ELSE IF type = "formula" THEN
        IF ~is_opencl_available
        THEN [error |-> ErrOpenCLHints, system |-> NoSystem]
        ELSE [error |-> NoError,
              system |-> NewSystem("mesh", "FormulaOpenCL",
                            OpenCLBackend(opencl_platform, opencl_device, data_type))]
    ELSE IF type = "kernel" THEN
        IF ~is_opencl_available
        THEN [error |-> ErrOpenCLHints, system |-> NoSystem]
        ELSE [error |-> NoError,
              system |-> NewSystem("mesh", "FullKernelOpenCL",
                            OpenCLBackend(opencl_platform, opencl_device, data_type))]
    ELSE [error |-> ErrUnsupportedRuleType(type), system |-> NoSystem]

\* GridOverlay starting from the default settings instead of the store's.
GridOverlayFromDefaults(store, xml) ==
    IF xml.present THEN OverwriteFromXML(DefaultSettings, xml) ELSE store

\* if(xml_render_settings) render_settings.OverwriteFromXML(xml_render_settings);
GridOverlay(store, xml) == IF xml.present THEN OverwriteFromXML(store, xml) ELSE store

\* ------------------------------------------------------------------ state

VARIABLES
    locale,              \* the process LC_NUMERIC locale
    render_settings,     \* the caller's Properties store (passed by reference)
    warn_to_update,      \* the caller's flag (passed by reference)
    calls,               \* calls of CreateFromFile started so far
    pc,                  \* the statement the current call is at
    args,                \* the current call's arguments
    file,                \* the file named by args.filename
    old_locale,          \* CreateFromFile's local old_locale
    system,              \* the model under construction (image_system / mesh_system / system)
    error,               \* the exception that left the call, if any
    result,              \* the model handed to the caller
    entry,               \* locale, render settings and flag when the call was entered
    invoked,             \* the sub-constructors the call has invoked
    xml_render_settings, \* the nested render_settings element, once looked up
    should_generate,     \* ShouldGenerateInitialPatternWhenLoading(), once asked
    image,               \* the image's dimensions and scalar components, once read
    tpc,                 \* SpecThreads: each thread's place in CreateFromFile
    told,                \* SpecThreads: each thread's old_locale
    tcalls,              \* SpecThreads: calls each thread has started
    start_locale         \* SpecThreads: the locale before any thread's call

frame == <<pc, args, file, old_locale, system, error, result, entry, invoked,
           xml_render_settings, should_generate, image>>
caller == <<locale, render_settings, warn_to_update, calls>>
threads == <<tpc, told, tcalls, start_locale>>
vars == <<caller, frame, threads>>

\* Before the first call there is no call frame.
NoArgs == [filename |-> "", is_opencl_available |-> FALSE,
           opencl_platform |-> -1, opencl_device |-> -1]
NoFile == [dst |-> "READ_ERROR", output |-> NoOutput, type |-> "bogus", name |-> "Bogus"]
NoImage == [dims |-> <<0, 0, 0>>, components |-> 0]

NotLookedUp == [read |-> FALSE, present |-> FALSE, settings |-> {}]
LookedUp(xml) == [read |-> TRUE, present |-> xml.present, settings |-> xml.settings]

Init ==
    /\ locale \in Locales
    /\ render_settings = DefaultSettings
    /\ warn_to_update = FALSE
    /\ calls = 0
    /\ pc = "idle"
    /\ args = NoArgs
    /\ file = NoFile
    /\ old_locale = "none"
    /\ system = NoSystem
    /\ error = NoError
    /\ result = NoSystem
    /\ entry = [locale |-> locale, render_settings |-> render_settings,
                warn_to_update |-> warn_to_update]
    /\ invoked = {}
    /\ xml_render_settings = NotLookedUp
    /\ should_generate = "unasked"
    /\ image = NoImage
    /\ tpc = [t \in Threads |-> "idle"]
    /\ told = [t \in Threads |-> "none"]
    /\ tcalls = [t \in Threads |-> 0]
    /\ start_locale = locale


\* A C++ exception leaves CreateFromFile: the unique_ptr destroys the model
\* under construction and the caller receives none.
Throw(e) ==
    /\ pc' = "failed"
    /\ error' = e
    /\ system' = NoSystem
    /\ result' = NoSystem

\* The caller calls CreateFromFile(filename, ...) with its render settings
\* and a flag; the first statement forces the numeric locale.
\*     char *old_locale = setlocale(LC_NUMERIC,"C");
Call ==
    /\ pc = "idle"
    /\ calls < MaxCalls
    /\ \E a \in Args, f \in Files :
        /\ args' = a
        /\ file' = f
    /\ entry' = [locale |-> locale, render_settings |-> render_settings,
                 warn_to_update |-> warn_to_update]
    /\ LET r == Setlocale(locale, "C") IN
        /\ locale' = r.locale
        /\ old_locale' = r.result
    /\ calls' = calls + 1
    /\ pc' = "switch"
    /\ UNCHANGED <<render_settings, warn_to_update, threads, system, error, result,
                   invoked, xml_render_settings, should_generate, image>>

\*     int data_structure_type = generic_reader->ReadOutputType(filename,parallel);
\*     switch(data_structure_type) ...
Switch ==
    /\ pc = "switch"
    /\ LET d == Dispatch(file.dst) IN
        IF d = "image" THEN
            /\ pc' = "image_read"
            /\ invoked' = invoked \cup {"CreateFromImageDataFile"}
            /\ UNCHANGED <<system, error, result>>
        ELSE IF d = "mesh" THEN
            /\ pc' = "grid_read"
            /\ invoked' = invoked \cup {"CreateFromUnstructuredGridFile"}
            /\ UNCHANGED <<system, error, result>>
        ELSE
            /\ Throw(ErrUnsupportedData)
            /\ UNCHANGED invoked
    /\ UNCHANGED <<caller, threads, args, file, old_locale, entry,
                   xml_render_settings, should_generate, image>>

\* ---- CreateFromImageDataFile

\*     reader->Update(); image = reader->GetOutput(); the three checks
ImageRead ==
    /\ pc = "image_read"
    /\ LET e == ImageChecks(file.output) IN
        IF e # NoError
        THEN Throw(e)
        ELSE pc' = "image_select" /\ UNCHANGED <<system, error, result>>
    /\ UNCHANGED <<caller, threads, args, file, old_locale, entry, invoked,
                   xml_render_settings, should_generate, image>>

\*     data_type, type, name; the choice of image_system
ImageSelect ==
    /\ pc = "image_select"
    /\ LET v == ImageVariant(file.type, file.name, args.is_opencl_available,
                             args.opencl_platform, args.opencl_device,
                             file.output.data_type) IN
        IF v.error # NoError
        THEN Throw(v.error)
        ELSE /\ system' = v.system
             /\ pc' = "image_init"
             /\ UNCHANGED <<error, result>>
    /\ UNCHANGED <<caller, threads, args, file, old_locale, entry, invoked,
                   xml_render_settings, should_generate, image>>

\*     image_system->InitializeFromXML(reader->GetRDElement(),warn_to_update);
ImageInitializeFromXML ==
    /\ pc = "image_init"
    /\ \/ /\ \E outdated \in BOOLEAN :
                warn_to_update' = InitializeFromXMLWarn(warn_to_update, outdated)
          /\ system' = Invoke(system, "InitializeFromXML")
          /\ pc' = "image_render"
          /\ UNCHANGED <<error, result>>
       \/ /\ Throw(ErrInitializeFromXML)
          /\ UNCHANGED warn_to_update
    /\ UNCHANGED <<locale, render_settings, calls, threads, args, file, old_locale,
                   entry, invoked, xml_render_settings, should_generate, image>>

\*     xml_render_settings = ...->FindNestedElementWithName("render_settings");
\*     if(xml_render_settings) render_settings.OverwriteFromXML(xml_render_settings);
ImageRenderSettings ==
    /\ pc = "image_render"
    /\ \E xml \in RenderSettingsElements \cup {NoElement} :
        /\ xml_render_settings' = LookedUp(xml)
        /\ render_settings' = ImageOverlay(render_settings, xml)
    /\ pc' = "image_size"
    /\ UNCHANGED <<locale, warn_to_update, calls, threads, args, file, old_locale,
                   system, error, result, entry, invoked, should_generate, image>>

\* ImageSetSize with the initial pattern generated before the model is sized.
ImageSetSizeAfterGenerate ==
    /\ pc = "image_size"
    /\ \E dim \in Dimensions, components \in 1..MaxComponents :
        /\ image' = [dims |-> dim, components |-> components]
        /\ LET nc == ImageNumberOfChemicals(components, file.output.narrays) IN
            system' = [Invoke(Invoke(Invoke(system, "GenerateInitialPattern"),
                                     "SetDimensions"), "SetNumberOfChemicals")
                          EXCEPT !.dims = dim, !.nc = nc]
    /\ pc' = "image_copy"
    /\ UNCHANGED <<caller, threads, args, file, old_locale, error, result, entry,
                   invoked, xml_render_settings, should_generate>>

\*     image->GetDimensions(dim); int nc = ...;
\*     image_system->SetDimensions(dim[0],dim[1],dim[2]);
\*     image_system->SetNumberOfChemicals(nc);
ImageSetSize ==
    /\ pc = "image_size"
    /\ \E dim \in Dimensions, components \in 1..MaxComponents :
        /\ image' = [dims |-> dim, components |-> components]
        /\ LET nc == ImageNumberOfChemicals(components, file.output.narrays) IN
            system' = [Invoke(Invoke(system, "SetDimensions"), "SetNumberOfChemicals")
                          EXCEPT !.dims = dim, !.nc = nc]
    /\ pc' = "image_copy"
    /\ UNCHANGED <<caller, threads, args, file, old_locale, error, result, entry,
                   invoked, xml_render_settings, should_generate>>

\*     image_system->CopyFromImage(image);
ImageCopyFromImage ==
    /\ pc = "image_copy"
    /\ \/ /\ system' = Invoke(system, "CopyFromImage")
          /\ pc' = "image_generate"
          /\ UNCHANGED <<error, result>>
       \/ Throw(ErrCopyFromImage)
    /\ UNCHANGED <<caller, threads, args, file, old_locale, entry, invoked,
                   xml_render_settings, should_generate, image>>

\*     if (reader->ShouldGenerateInitialPatternWhenLoading())
\*         image_system->GenerateInitialPattern();
\*     return image_system;
ImageGenerateInitialPattern ==
    /\ pc = "image_generate"
    /\ \/ /\ should_generate' = "yes"
          /\ \/ /\ system' = Invoke(system, "GenerateInitialPattern")
                /\ pc' = "restore"
                /\ UNCHANGED <<error, result>>
             \/ Throw(ErrGenerateInitialPattern)
       \/ /\ should_generate' = "no"
          /\ pc' = "restore"
          /\ UNCHANGED <<system, error, result>>
    /\ UNCHANGED <<caller, threads, args, file, old_locale, entry, invoked,
                   xml_render_settings, image>>


\* ---- CreateFromUnstructuredGridFile

\*     reader->Update(); ugrid = reader->GetOutput(); the three checks
GridRead ==
    /\ pc = "grid_read"
    /\ LET e == GridChecks(file.output) IN
        IF e # NoError
        THEN Throw(e)
        ELSE pc' = "grid_select" /\ UNCHANGED <<system, error, result>>
    /\ UNCHANGED <<caller, threads, args, file, old_locale, entry, invoked,
                   xml_render_settings, should_generate, image>>

\*     data_type, type, name; the choice of mesh_system
GridSelect ==
    /\ pc = "grid_select"
    /\ LET v == GridVariant(file.type, file.name, args.is_opencl_available,
                            args.opencl_platform, args.opencl_device,
                            file.output.data_type) IN
        IF v.error # NoError
        THEN Throw(v.error)
        ELSE /\ system' = v.system
             /\ pc' = "grid_init"
             /\ UNCHANGED <<error, result>>
    /\ UNCHANGED <<caller, threads, args, file, old_locale, entry, invoked,
                   xml_render_settings, should_generate, image>>

\*     mesh_system->InitializeFromXML(reader->GetRDElement(),warn_to_update);
GridInitializeFromXML ==
    /\ pc = "grid_init"
    /\ \/ /\ \E outdated \in BOOLEAN :
                warn_to_update' = InitializeFromXMLWarn(warn_to_update, outdated)
          /\ system' = Invoke(system, "InitializeFromXML")
          /\ pc' = "grid_copy"
          /\ UNCHANGED <<error, result>>
       \/ /\ Throw(ErrInitializeFromXML)
          /\ UNCHANGED warn_to_update
    /\ UNCHANGED <<locale, render_settings, calls, threads, args, file, old_locale,
                   entry, invoked, xml_render_settings, should_generate, image>>

\*     mesh_system->CopyFromMesh(ugrid);
GridCopyFromMesh ==
    /\ pc = "grid_copy"
    /\ \/ /\ system' = [Invoke(system, "CopyFromMesh")
                           EXCEPT !.nc = MeshNumberOfChemicals(file.output)]
          /\ pc' = "grid_render"
          /\ UNCHANGED <<error, result>>
       \/ Throw(ErrCopyFromMesh)
    /\ UNCHANGED <<caller, threads, args, file, old_locale, entry, invoked,
                   xml_render_settings, should_generate, image>>

\*     xml_render_settings = ...->FindNestedElementWithName("render_settings");
\*     if(xml_render_settings) render_settings.OverwriteFromXML(xml_render_settings);
GridRenderSettings ==
    /\ pc = "grid_render"
    /\ \E xml \in RenderSettingsElements \cup {NoElement} :
        /\ xml_render_settings' = LookedUp(xml)
        /\ render_settings' = GridOverlay(render_settings, xml)
    /\ pc' = "grid_generate"
    /\ UNCHANGED <<locale, warn_to_update, calls, threads, args, file, old_locale,
                   system, error, result, entry, invoked, should_generate, image>>

\*     if(reader->ShouldGenerateInitialPatternWhenLoading())
\*         mesh_system->GenerateInitialPattern();
\*     return mesh_system;
GridGenerateInitialPattern ==
    /\ pc = "grid_generate"
    /\ \/ /\ should_generate' = "yes"
          /\ \/ /\ system' = Invoke(system, "GenerateInitialPattern")
                /\ pc' = "restore"
                /\ UNCHANGED <<error, result>>
             \/ Throw(ErrGenerateInitialPattern)
       \/ /\ should_generate' = "no"
          /\ pc' = "restore"
          /\ UNCHANGED <<system, error, result>>
    /\ UNCHANGED <<caller, threads, args, file, old_locale, entry, invoked,
                   xml_render_settings, image>>

\* ---- back in CreateFromFile

\*     setlocale(LC_NUMERIC,old_locale);
RestoreLocale ==
    /\ pc = "restore"
    /\ locale' = Setlocale(locale, old_locale).locale
    /\ pc' = "finish"
    /\ UNCHANGED <<render_settings, warn_to_update, calls, threads, args, file,
                   old_locale, system, error, result, entry, invoked,
                   xml_render_settings, should_generate, image>>

\*     system->SetFilename(filename); system->SetModified(false); return system;
Finish ==
    /\ pc = "finish"
    /\ result' = [system EXCEPT !.filename = args.filename, !.modified = FALSE]
    /\ system' = NoSystem
    /\ pc' = "done"
    /\ UNCHANGED <<caller, threads, args, file, old_locale, error, entry, invoked,
                   xml_render_settings, should_generate, image>>

\* The call is over (returned or unwound): its frame is gone, and the caller
\* goes on with the locale, the render settings and the flag as they are.
Return ==
    /\ pc \in {"done", "failed"}
    /\ pc' = "idle"
    /\ args' = NoArgs
    /\ file' = NoFile
    /\ old_locale' = "none"
    /\ system' = NoSystem
    /\ error' = NoError
    /\ result' = NoSystem
    /\ entry' = [locale |-> locale, render_settings |-> render_settings,
                 warn_to_update |-> warn_to_update]
    /\ invoked' = {}
    /\ xml_render_settings' = NotLookedUp
    /\ should_generate' = "unasked"
    /\ image' = NoImage
    /\ UNCHANGED <<caller, threads>>

Next ==
    \/ Call
    \/ Switch
    \/ ImageRead
    \/ ImageSelect
    \/ ImageInitializeFromXML
    \/ ImageRenderSettings
    \/ ImageSetSize
    \/ ImageCopyFromImage
    \/ ImageGenerateInitialPattern
    \/ GridRead
    \/ GridSelect
    \/ GridInitializeFromXML
    \/ GridCopyFromMesh
    \/ GridRenderSettings
    \/ GridGenerateInitialPattern
    \/ RestoreLocale
    \/ Finish
    \/ Return

Spec == Init /\ [][Next]_vars


\* ------------------------------------------------------------------ two threads

\* The exception the statements between the two setlocale calls throw for
\* file f and arguments a before any method of the model runs (NoError when
\* a model is constructed): the switch, the sub-constructor's checks, the
\* choice of the variant.
FirstError(f, a) ==
    IF Dispatch(f.dst) = "throw" THEN ErrUnsupportedData
    ELSE IF Dispatch(f.dst) = "image" THEN
        IF ImageChecks(f.output) # NoError THEN ImageChecks(f.output)
        ELSE ImageVariant(f.type, f.name, a.is_opencl_available, a.opencl_platform,
                          a.opencl_device, f.output.data_type).error
    ELSE
        IF GridChecks(f.output) # NoError THEN GridChecks(f.output)
        ELSE GridVariant(f.type, f.name, a.is_opencl_available, a.opencl_platform,
                         a.opencl_device, f.output.data_type).error

\*     char *old_locale = setlocale(LC_NUMERIC,"C");
ThreadEnter(t) ==
    /\ tpc[t] = "idle"
    /\ tcalls[t] < MaxThreadCalls
    /\ LET r == Setlocale(locale, "C") IN
        /\ locale' = r.locale
        /\ told' = [told EXCEPT ![t] = r.result]
    /\ tcalls' = [tcalls EXCEPT ![t] = @ + 1]
    /\ tpc' = [tpc EXCEPT ![t] = "body"]
    /\ UNCHANGED <<render_settings, warn_to_update, calls, frame, start_locale>>

\* The statements between the two setlocale calls: they return a model, or
\* an exception leaves CreateFromFile.
ThreadBody(t) ==
    /\ tpc[t] = "body"
    /\ \E f \in Files, a \in Args, thrown \in BOOLEAN :
        tpc' = [tpc EXCEPT ![t] =
                   IF FirstError(f, a) # NoError \/ thrown THEN "failed" ELSE "restore"]
    /\ UNCHANGED <<caller, frame, told, tcalls, start_locale>>

\*     setlocale(LC_NUMERIC,old_locale); ... return system;
ThreadRestore(t) ==
    /\ tpc[t] = "restore"
    /\ locale' = Setlocale(locale, told[t]).locale
    /\ tpc' = [tpc EXCEPT ![t] = "done"]
    /\ UNCHANGED <<render_settings, warn_to_update, calls, frame, told, tcalls,
                   start_locale>>

\* The thread's call is over; it may call again.
ThreadReturn(t) ==
    /\ tpc[t] \in {"done", "failed"}
    /\ tpc' = [tpc EXCEPT ![t] = "idle"]
    /\ told' = [told EXCEPT ![t] = "none"]
    /\ UNCHANGED <<caller, frame, tcalls, start_locale>>

NextThreads ==
    \E t \in Threads :
        \/ ThreadEnter(t)
        \/ ThreadBody(t)
        \/ ThreadRestore(t)
        \/ ThreadReturn(t)

SpecThreads == Init /\ [][NextThreads]_vars


\* ------------------------------------------------------------------ properties

Ended == pc \in {"done", "failed"}
\* The switch has run.
PastSwitch == pc \notin {"idle", "switch"}
\* The sub-constructor's checks and its choice of the variant have run.
PastSelect ==
    pc \notin {"idle", "switch", "image_read", "grid_read", "image_select", "grid_select"}
IsImageFile == file.dst = "VTK_IMAGE_DATA"
IsGridFile == file.dst = "VTK_UNSTRUCTURED_GRID"
HasDataArray == file.output.obj /\ file.output.data /\ file.output.narrays >= 1
NeedsOpenCL == file.type \in {"formula", "kernel"}
Models == {system, result} \ {NoSystem}
Named(xml, n) == \E p \in xml.settings : p[1] = n

\* C1: when a call of CreateFromFile exits, by return or by exception, the
\* process numeric locale equals the locale at the call's entry.
C1_LocaleRestoredOnEveryExit == Ended => locale = entry.locale

\* C2, as stated: a call for a descriptor of type formula or kernel (the
\* type the image or grid reader reports) with is_opencl_available = false
\* fails with the OpenCL installation hints, whatever else is wrong with the
\* file.
C2_AlwaysComputeUnavailable ==
    (Ended /\ invoked # {} /\ NeedsOpenCL /\ ~args.is_opencl_available)
        => (pc = "failed" /\ error = ErrOpenCLHints)

\* C2, amended: such a call always fails; it fails with the OpenCL
\* installation hints when the container type is supported and the reader's
\* output has a data section with at least one array, and otherwise with the
\* error of the earlier check that failed.
C2_ComputeUnavailableAfterDataChecks ==
    (Ended /\ NeedsOpenCL /\ ~args.is_opencl_available) =>
        /\ pc = "failed"
        /\ ((IsImageFile \/ IsGridFile) /\ HasDataArray) => error = ErrOpenCLHints
        /\ ~(IsImageFile \/ IsGridFile) => error = ErrUnsupportedData
        /\ (IsImageFile /\ ~HasDataArray) =>
                error \in {ErrImageRead, ErrImageNoPointData, ErrImageNoArrays}
        /\ (IsGridFile /\ ~HasDataArray) =>
                error \in {ErrGridRead, ErrGridNoCellData, ErrGridNoArrays}

C2_Witness ==
    /\ pc = "failed"
    /\ error = ErrOpenCLHints
    /\ file.type = "kernel"
    /\ IsGridFile
    /\ ~args.is_opencl_available

\* C3: a call that fails returns no model and leaves the caller's render
\* settings and warn_to_update flag as they were at entry.
C3_FailureLeavesNoPartialState ==
    pc = "failed" =>
        /\ result = NoSystem
        /\ render_settings = entry.render_settings
        /\ warn_to_update = entry.warn_to_update

\* C4: an image file invokes only CreateFromImageDataFile, an unstructured
\* grid file only CreateFromUnstructuredGridFile, and any other sniffed
\* value fails with the unsupported-data error, invoking neither and
\* returning no model.
C4_DispatchOnContainerType ==
    /\ (pc \in {"image_read", "image_select", "image_init", "image_render",
                "image_size", "image_copy", "image_generate"}) => IsImageFile
    /\ (pc \in {"grid_read", "grid_select", "grid_init", "grid_copy",
                "grid_render", "grid_generate"}) => IsGridFile
    /\ PastSwitch =>
        /\ IsImageFile => invoked = {"CreateFromImageDataFile"}
        /\ IsGridFile => invoked = {"CreateFromUnstructuredGridFile"}
        /\ ~(IsImageFile \/ IsGridFile) =>
            /\ invoked = {}
            /\ pc = "failed"
            /\ error = ErrUnsupportedData
            /\ system = NoSystem
            /\ result = NoSystem
    /\ ~PastSwitch => invoked = {}

C4_Witness ==
    /\ pc = "done"
    /\ IsGridFile
    /\ invoked = {"CreateFromUnstructuredGridFile"}
    /\ result.topology = "mesh"

\* C5: for a file with a data array, the variant is chosen from type and
\* name: inbuilt/Gray-Scott gives the Gray-Scott variant with no compute
\* backend, whether or not OpenCL is available; inbuilt with another name
\* fails with the unsupported-implementation error; formula or kernel with
\* OpenCL available gives the formula or full-kernel variant bound to the
\* caller's platform and device and the first array's scalar type; any other
\* type fails with the unsupported-rule-type error.  No model has a compute
\* backend when OpenCL is unavailable.
C5_VariantSelection ==
    /\ ((IsImageFile \/ IsGridFile) /\ HasDataArray /\ PastSelect) =>
        /\ (file.type = "inbuilt" /\ file.name = "Gray-Scott") =>
            /\ error \notin {ErrUnsupportedInbuilt(file.name), ErrOpenCLHints,
                             ErrUnsupportedRuleType(file.type)}
            /\ \A m \in Models : m.rule = "GrayScott" /\ m.backend = NoBackend
        /\ (file.type = "inbuilt" /\ file.name # "Gray-Scott") =>
            /\ pc = "failed"
            /\ error = ErrUnsupportedInbuilt(file.name)
        /\ (NeedsOpenCL /\ args.is_opencl_available) =>
            /\ error \notin {ErrUnsupportedInbuilt(file.name), ErrOpenCLHints,
                             ErrUnsupportedRuleType(file.type)}
            /\ \A m \in Models :
                /\ m.rule = (IF file.type = "formula" THEN "FormulaOpenCL"
                                                       ELSE "FullKernelOpenCL")
                /\ m.backend.bound
                /\ m.backend.platform = args.opencl_platform
                /\ m.backend.device = args.opencl_device
                /\ m.backend.data_type = file.output.data_type
        /\ file.type \notin {"inbuilt", "formula", "kernel"} =>
            /\ pc = "failed"
            /\ error = ErrUnsupportedRuleType(file.type)
        /\ (pc # "failed" /\ pc # "done") => system # NoSystem
        /\ \A m \in Models : m.topology = (IF IsImageFile THEN "image" ELSE "mesh")
    /\ \A m \in Models : m.backend.bound => args.is_opencl_available

C5_Witness ==
    /\ pc = "done"
    /\ file.type = "inbuilt"
    /\ file.name = "Gray-Scott"
    /\ ~args.is_opencl_available
    /\ result.rule = "GrayScott"
    /\ result.backend = NoBackend

\* C6: a returned model has the path argument as its filename and is not
\* modified; for an image file its dimensions are the image's and its number
\* of chemicals is (scalar components) x (number of point-data arrays).
C6_ReturnedModel ==
    pc = "done" =>
        /\ result # NoSystem
        /\ result.filename = args.filename
        /\ ~result.modified
        /\ IsImageFile =>
            /\ result.dims = image.dims
            /\ result.nc = image.components * file.output.narrays

C6_Witness ==
    /\ pc = "done"
    /\ IsImageFile
    /\ file.output.narrays = 1
    /\ image = [dims |-> <<32, 32, 1>>, components |-> 3]
    /\ result.dims = <<32, 32, 1>>
    /\ result.nc = 3
    /\ \E i \in DOMAIN result.log : result.log[i] = "GenerateInitialPattern"

\* The methods that must have run on a model before GenerateInitialPattern.
Prerequisites(topology) ==
    IF topology = "image"
    THEN {"InitializeFromXML", "SetDimensions", "SetNumberOfChemicals", "CopyFromImage"}
    ELSE {"InitializeFromXML", "CopyFromMesh"}

\* C7: GenerateInitialPattern runs on a model at most once, only when the
\* descriptor asks for it, and only after the model was hydrated and
\* spatially sized.
C7_GenerateAfterSizing ==
    /\ \A m \in Models :
        /\ Cardinality({i \in DOMAIN m.log : m.log[i] = "GenerateInitialPattern"}) <= 1
        /\ \A i \in DOMAIN m.log :
            m.log[i] = "GenerateInitialPattern" =>
                /\ should_generate = "yes"
                /\ \A q \in Prerequisites(m.topology) :
                        \E j \in 1..(i - 1) : m.log[j] = q
    /\ error = ErrGenerateInitialPattern => should_generate = "yes"

C7_Witness ==
    /\ pc = "done"
    /\ result.topology = "image"
    /\ should_generate = "yes"
    /\ result.log = <<"InitializeFromXML", "SetDimensions", "SetNumberOfChemicals",
                      "CopyFromImage", "GenerateInitialPattern">>

\* C8: without a nested render_settings element the caller's store is
\* unchanged and the lookup raises no error; with one, each setting it names
\* takes its value and every other setting keeps the value it had at entry.
C8_RenderSettingsOverlay ==
    pc # "idle" =>
        /\ ~(xml_render_settings.read /\ xml_render_settings.present) =>
                render_settings = entry.render_settings
        /\ (xml_render_settings.read /\ xml_render_settings.present) =>
            \A n \in SettingNames :
                IF Named(xml_render_settings, n)
                THEN <<n, render_settings[n]>> \in xml_render_settings.settings
                ELSE render_settings[n] = entry.render_settings[n]
        /\ (pc = "failed" /\ xml_render_settings.read) =>
                error \in {ErrCopyFromImage, ErrGenerateInitialPattern}

C8_Witness ==
    /\ pc = "done"
    /\ xml_render_settings.read
    /\ xml_render_settings.settings = {<<"a", 1>>}
    /\ entry.render_settings = [n \in SettingNames |-> IF n = "b" THEN 1 ELSE 0]
    /\ render_settings = [n \in SettingNames |-> 1]

\* C9: once two concurrent calls of CreateFromFile have both returned, the
\* process numeric locale equals the value it had before the first started.
C9_LocaleUnalteredAfterThreads ==
    (\A t \in Threads : tpc[t] = "done") => locale = start_locale

\* C10: no output, no data section and no array in the data section fail
\* with three different errors, in that order of checking, for images and
\* for grids; and no model exists for a file without a data array.
C10_MissingDataChecks ==
    /\ (PastSwitch /\ IsImageFile /\ pc # "image_read") =>
        /\ ~file.output.obj => (pc = "failed" /\ error = ErrImageRead)
        /\ (file.output.obj /\ ~file.output.data) =>
                (pc = "failed" /\ error = ErrImageNoPointData)
        /\ (file.output.data /\ file.output.narrays = 0) =>
                (pc = "failed" /\ error = ErrImageNoArrays)
    /\ (PastSwitch /\ IsGridFile /\ pc # "grid_read") =>
        /\ ~file.output.obj => (pc = "failed" /\ error = ErrGridRead)
        /\ (file.output.obj /\ ~file.output.data) =>
                (pc = "failed" /\ error = ErrGridNoCellData)
        /\ (file.output.data /\ file.output.narrays = 0) =>
                (pc = "failed" /\ error = ErrGridNoArrays)
    /\ Cardinality({ErrImageRead, ErrImageNoPointData, ErrImageNoArrays}) = 3
    /\ Cardinality({ErrGridRead, ErrGridNoCellData, ErrGridNoArrays}) = 3
    /\ ~HasDataArray => (system = NoSystem /\ result = NoSystem)

C10_Witness ==
    /\ pc = "failed"
    /\ IsGridFile
    /\ file.output = NoDataSection
    /\ error = ErrGridNoCellData
    /\ file.type = "formula"

====
